---------------------------- MODULE Spec2Model ----------------------------
(***************************************************************************)
(* A model of the team-metrics pipeline of src/metrics.py, of the top-N    *)
(* selection of src/charts.py and of the calls src/app.py makes.           *)
(*                                                                         *)
(* A DataFrame is a record [columns, rows]: the set of its column names    *)
(* and the sequence of its rows, each row a function from the column names *)
(* (and "index", the row label pandas keeps through sort and filter) to    *)
(* the cell values.  A float cell is an exact fraction [num, den] in       *)
(* lowest terms; den = 0 encodes the IEEE specials: 0/0 is NaN (pandas'    *)
(* missing-value marker), 1/0 is +inf and -1/0 is -inf.  Rounding of the   *)
(* binary floats is not modelled.                                          *)
(***************************************************************************)
EXTENDS Integers, Sequences, FiniteSets, TLC

VARIABLES
    pc,              \* which call comes next
    df_raw,          \* the table as loaded (app.py:17)
    window,          \* the window string, a sequence of characters
    metric,          \* the leaderboard's metric column
    top_n,           \* the leaderboard's N
    normalized,      \* result of normalize_team_game_df(df_raw)
    prepared,        \* result of prepare_team_games_for_metrics(df_raw)
    prepared_again,  \* result of prepare_team_games_for_metrics(prepared)
    windowed,        \* result of apply_time_window_team_games(df, window)
    offense,         \* result of aggregate_team_offense(df, window)
    paired,          \* result of pair_team_opponent(df)
    ratings,         \* result of aggregate_team_with_defense(df, window)
    leaders          \* the rows plot_leaderboard draws

vars == <<pc, df_raw, window, metric, top_n, normalized, prepared,
          prepared_again, windowed, offense, paired, ratings, leaders>>

(***************************************************************************)
(* Bounds of the model.                                                    *)
(***************************************************************************)
MaxPrepRows == 1     \* rows of a table given to the preparation calls
MaxRows == 4         \* rows of a table given to the window filter
MaxOddRows == 2      \* rows of a table tried with the unusual window strings
MaxGames == 2        \* games of a schedule given to the pairing
MaxBoardRows == 3    \* rows of an aggregate table given to the leaderboard
MaxTopN == 4         \* largest N asked of the leaderboard

(***************************************************************************)
(* Float cells.                                                            *)
(***************************************************************************)
Abs(n) == IF n < 0 THEN -n ELSE n

Sign(n) == IF n < 0 THEN -1 ELSE IF n > 0 THEN 1 ELSE 0

RECURSIVE GCD(_, _)
GCD(a, b) == IF b = 0 THEN a ELSE GCD(b, a % b)

NaN == [num |-> 0, den |-> 0]

Inf(s) == [num |-> s, den |-> 0]

\* the float n/d, d # 0
Ratio(n, d) ==
    LET g == GCD(Abs(n), Abs(d))
    IN  [num |-> Sign(d) * (n \div g), den |-> Abs(d) \div g]

Num(n) == [num |-> n, den |-> 1]

IsNaN(x) == x.den = 0 /\ x.num = 0

IsInf(x) == x.den = 0 /\ x.num # 0

IsNumber(x) == x.den # 0

\* IEEE addition
FAdd(a, b) ==
    IF IsNaN(a) \/ IsNaN(b) THEN NaN
    ELSE IF IsInf(a) /\ IsInf(b) THEN (IF a.num = b.num THEN a ELSE NaN)
    ELSE IF IsInf(a) THEN a
    ELSE IF IsInf(b) THEN b
    ELSE Ratio(a.num * b.den + b.num * a.den, a.den * b.den)

FNeg(a) == [num |-> -a.num, den |-> a.den]

FSub(a, b) == FAdd(a, FNeg(b))

\* IEEE multiplication by the integer constant k # 0
FScale(k, a) == IF a.den = 0 THEN Inf(Sign(k) * a.num) ELSE Ratio(k * a.num, a.den)

\* IEEE division: x/0 is +-inf, 0/0 is NaN
FDiv(a, b) ==
    IF IsNaN(a) \/ IsNaN(b) THEN NaN
    ELSE IF IsInf(b) THEN (IF IsInf(a) THEN NaN ELSE Num(0))
    ELSE IF IsInf(a) THEN Inf(a.num * Sign(b.num))
    ELSE IF b.num = 0 THEN (IF a.num = 0 THEN NaN ELSE Inf(Sign(a.num)))
    ELSE Ratio(a.num * b.den, a.den * b.num)

\* a < b on numbers
FLess(a, b) == a.num * b.den < b.num * a.den

\* Series.replace(0, np.nan)
ReplaceZero(x) == IF x.den # 0 /\ x.num = 0 THEN NaN ELSE x

\* Series.replace([np.inf, -np.inf], np.nan)
ReplaceInf(x) == IF IsInf(x) THEN NaN ELSE x

(***************************************************************************)
(* Tables and results of calls.                                            *)
(***************************************************************************)
Range(s) == {s[i] : i \in 1..Len(s)}

RECURSIVE SeqsUpTo(_, _)
\* the sequences over S of length at most n
SeqsUpTo(S, n) ==
    IF n = 0 THEN {<<>>}
    ELSE LET shorter == SeqsUpTo(S, n - 1)
         IN  shorter \cup {Append(s, x) : s \in {t \in shorter : Len(t) = n - 1}, x \in S}

NoFrame == [columns |-> {}, rows |-> <<>>]

\* a call that returned df
Ok(df) == [error |-> "", missing |-> <<>>, df |-> df]

\* a call that raised ValueError(message ...)
Raised(message, missing) == [error |-> message, missing |-> missing, df |-> NoFrame]

NotCalled == [error |-> "not called", missing |-> <<>>, df |-> NoFrame]

\* df[name] = values: the column is added or overwritten, row by row
SetColumn(df, name, values) ==
    [columns |-> df.columns \cup {name},
     rows |-> [i \in 1..Len(df.rows) |-> (name :> values[i]) @@ df.rows[i]]]

(***************************************************************************)
(* Dates: a GAME_DATE cell is a string, as read from the CSV, or a         *)
(* datetime64 value, counted in days.                                      *)
(***************************************************************************)
DateStrings == <<"2024-01-01", "2024-01-02", "2024-01-03">>

DateText(text) == [kind |-> "str", text |-> text, day |-> 0]

Timestamp(day) == [kind |-> "datetime64", text |-> "", day |-> day]

Parsable(cell) == cell.kind = "datetime64" \/ cell.text \in Range(DateStrings)

\* pd.to_datetime on one cell: a datetime stays, a date string is parsed
to_datetime(cell) ==
    IF cell.kind = "datetime64" THEN cell
    ELSE Timestamp(CHOOSE d \in 1..Len(DateStrings) : DateStrings[d] = cell.text)

(***************************************************************************)
(* 1) Row-level derived fields.                                            *)
(***************************************************************************)
required == <<"GAME_ID", "GAME_DATE", "TEAM_ID", "TEAM_ABBREVIATION",
              "PTS", "FGA", "FGM", "FG3A", "FG3M", "FTA", "FTM",
              "OREB", "DREB", "AST", "TOV", "MIN">>

\* Mutant of MissingColumns: line 28 stopping at the first absent column.
MissingColumnsFirstOnly(df) ==
    LET all == SelectSeq(required, LAMBDA c : c \notin df.columns)
    IN  IF all = <<>> THEN <<>> ELSE <<all[1]>>

\* the list comprehension of line 28
MissingColumns(df) == SelectSeq(required, LAMBDA c : c \notin df.columns)

normalize_team_game_df(df) ==
    LET missing == MissingColumns(df)
    IN  IF missing # <<>> THEN Raised("Missing required columns", missing)
        ELSE IF \E i \in 1..Len(df.rows) : ~Parsable(df.rows[i]["GAME_DATE"])
             THEN Raised("Unknown datetime string format", <<>>)
        ELSE Ok(SetColumn(df, "GAME_DATE", [i \in 1..Len(df.rows) |-> to_datetime(df.rows[i]["GAME_DATE"])]))

\* FGA + 0.44*FTA - OREB + TOV
PossOf(r) == Ratio(100 * r["FGA"] + 44 * r["FTA"] - 100 * r["OREB"] + 100 * r["TOV"], 100)

\* Mutant of add_possessions: line 42 adding to a POSS column already there.
add_possessionsAccumulating(df) ==
    SetColumn(df, "POSS",
              [i \in 1..Len(df.rows) |->
                  IF "POSS" \in df.columns
                  THEN FAdd(df.rows[i]["POSS"], PossOf(df.rows[i]))
                  ELSE PossOf(df.rows[i])])

add_possessions(df) ==
    SetColumn(df, "POSS", [i \in 1..Len(df.rows) |-> ReplaceInf(PossOf(df.rows[i]))])

\* Mutant of EfgOf: line 54 answering a zero FGA with 0.
EfgOfZeroDefault(r) ==
    IF r["FGA"] = 0 THEN Num(0) ELSE Ratio(2 * r["FGM"] + r["FG3M"], 2 * r["FGA"])

\* (FGM + 0.5*FG3M) / FGA.replace(0, nan)
EfgOf(r) == FDiv(Ratio(2 * r["FGM"] + r["FG3M"], 2), ReplaceZero(Num(r["FGA"])))

\* PTS / (2 * (FGA + 0.44*FTA).replace(0, nan))
TsOf(r) ==
    FDiv(Num(r["PTS"]), FScale(2, ReplaceZero(Ratio(100 * r["FGA"] + 44 * r["FTA"], 100))))

add_shooting_metrics(df) ==
    SetColumn(SetColumn(df, "eFG", [i \in 1..Len(df.rows) |-> ReplaceInf(EfgOf(df.rows[i]))]),
              "TS", [i \in 1..Len(df.rows) |-> ReplaceInf(TsOf(df.rows[i]))])

\* The caller's table after a call: every function of metrics.py starts
\* with df = df.copy() and writes to the copy only.
CallerFrameAfter(df, written) == df

(***************************************************************************)
(* 5) The preparation helper.                                              *)
(***************************************************************************)
prepare_team_games_for_metrics(df_in) ==
    LET n == normalize_team_game_df(df_in)
    IN  IF n.error # "" THEN n
        ELSE Ok(add_shooting_metrics(add_possessions(n.df)))

(***************************************************************************)
(* Window strings.  A window is a sequence of one-character strings, so    *)
(* that startswith, split and int are computed on the characters.          *)
(***************************************************************************)
W_SEASON == <<"S", "E", "A", "S", "O", "N">>

W_PREFIX == <<"L", "A", "S", "T", "_">>

W_LAST_1 == W_PREFIX \o <<"1">>

W_LAST_2 == W_PREFIX \o <<"2">>

W_LAST_0 == W_PREFIX \o <<"0">>

W_LAST_10 == W_PREFIX \o <<"1", "0">>

W_LAST_NEG == W_PREFIX \o <<"-", "1">>

W_LAST_X == W_PREFIX \o <<"x">>

W_LAST_EMPTY == W_PREFIX

W_LAST5 == <<"L", "A", "S", "T", "5">>

W_LAST_2_X == W_PREFIX \o <<"2", "_", "x">>

\* the windows every table is tried with
CoreWindows == {W_SEASON, W_LAST_1, W_LAST_2, W_LAST_NEG}

\* the windows the short tables are tried with as well
OddWindows == {W_LAST_10, W_LAST_0, W_LAST_X, W_LAST_EMPTY, W_LAST5, W_LAST_2_X}

Windows == CoreWindows \cup OddWindows

\* str.startswith
StartsWith(s, prefix) ==
    Len(s) >= Len(prefix) /\ SubSeq(s, 1, Len(prefix)) = prefix

\* the position of the first sep in s at or after position from; Len(s)+1 if none
FindFrom(s, sep, from) ==
    IF \E i \in from..Len(s) : s[i] = sep
    THEN CHOOSE i \in from..Len(s) : s[i] = sep /\ \A j \in from..(i - 1) : s[j] # sep
    ELSE Len(s) + 1

\* s.split("_")[1], for s holding at least one "_"
SplitField1(s) ==
    LET first == FindFrom(s, "_", 1)
        second == FindFrom(s, "_", first + 1)
    IN  SubSeq(s, first + 1, second - 1)

DigitChars == <<"0", "1", "2", "3", "4", "5", "6", "7", "8", "9">>

IsDigit(c) == \E d \in 1..10 : DigitChars[d] = c

DigitValue(c) == (CHOOSE d \in 1..10 : DigitChars[d] = c) - 1

RECURSIVE DigitsValue(_)
DigitsValue(s) ==
    IF s = <<>> THEN 0
    ELSE 10 * DigitsValue(SubSeq(s, 1, Len(s) - 1)) + DigitValue(s[Len(s)])

RECURSIVE StripSpaces(_)
StripSpaces(s) ==
    IF s # <<>> /\ s[1] = " " THEN StripSpaces(Tail(s))
    ELSE IF s # <<>> /\ s[Len(s)] = " " THEN StripSpaces(SubSeq(s, 1, Len(s) - 1))
    ELSE s

\* Python's int(str): blanks around, an optional sign, then decimal digits;
\* anything else raises ValueError (ok = FALSE)
ParseInt(str) ==
    LET s == StripSpaces(str)
        signed == s # <<>> /\ s[1] \in {"+", "-"}
        digits == IF signed THEN Tail(s) ELSE s
        good == digits # <<>> /\ \A i \in 1..Len(digits) : IsDigit(digits[i])
    IN  [ok |-> good,
         value |-> IF ~good THEN 0
                   ELSE IF signed /\ s[1] = "-" THEN -DigitsValue(digits)
                   ELSE DigitsValue(digits)]

(***************************************************************************)
(* 2) Time window filtering.                                               *)
(***************************************************************************)
\* Mutant of TeamDateBefore: line 71 with the dates ascending.
TeamDateBeforeAscending(a, b) ==
    \/ a["TEAM_ID"] < b["TEAM_ID"]
    \/ a["TEAM_ID"] = b["TEAM_ID"] /\ a["GAME_DATE"].day < b["GAME_DATE"].day

\* the order of sort_values(["TEAM_ID", "GAME_DATE"], ascending=[True, False])
TeamDateBefore(a, b) ==
    \/ a["TEAM_ID"] < b["TEAM_ID"]
    \/ a["TEAM_ID"] = b["TEAM_ID"] /\ a["GAME_DATE"].day > b["GAME_DATE"].day

\* x placed after every row that does not come after it: equal keys keep
\* their order of arrival
InsertTeamDate(sorted, x) ==
    LET k == Cardinality({i \in 1..Len(sorted) : ~TeamDateBefore(x, sorted[i])})
    IN  SubSeq(sorted, 1, k) \o <<x>> \o SubSeq(sorted, k + 1, Len(sorted))

RECURSIVE SortTeamDate(_)
\* sort_values on two keys: pandas' lexsort, a stable sort
SortTeamDate(rows) ==
    IF rows = <<>> THEN <<>>
    ELSE InsertTeamDate(SortTeamDate(SubSeq(rows, 1, Len(rows) - 1)), rows[Len(rows)])

\* groupby("TEAM_ID", group_keys=False).head(n): of every group the rows
\* at positions [:n], in the order of the frame
GroupHead(rows, n) ==
    LET rank(i) == Cardinality({j \in 1..(i - 1) : rows[j]["TEAM_ID"] = rows[i]["TEAM_ID"]})
        size(i) == Cardinality({j \in 1..Len(rows) : rows[j]["TEAM_ID"] = rows[i]["TEAM_ID"]})
        keep(i) == IF n >= 0 THEN rank(i) < n ELSE rank(i) < size(i) + n
        kept == {i \in 1..Len(rows) : keep(i)}
        nth(k) == CHOOSE i \in kept : Cardinality({j \in kept : j < i}) = k - 1
    IN  [k \in 1..Cardinality(kept) |-> rows[nth(k)]]

apply_time_window_team_games(df, w) ==
    LET sorted == [df EXCEPT !.rows = SortTeamDate(df.rows)]
    IN  IF w = W_SEASON THEN Ok(sorted)
        ELSE IF StartsWith(w, W_PREFIX)
             THEN LET n == ParseInt(SplitField1(w))
                  IN  IF ~n.ok THEN Raised("Invalid window format", <<>>)
                      ELSE Ok([sorted EXCEPT !.rows = GroupHead(sorted.rows, n.value)])
        ELSE Raised("Unsupported window", <<>>)

(***************************************************************************)
(* groupby(["TEAM_ID", "TEAM_ABBREVIATION"], as_index=False): one group    *)
(* per pair of key values that occurs, in the sorted order of the keys.    *)
(***************************************************************************)
TeamIdsSorted == <<1, 2>>

AbbrSorted == <<"AAA", "AAX", "BBB">>

AllGroupKeys ==
    [k \in 1..(Len(TeamIdsSorted) * Len(AbbrSorted)) |->
        [TEAM_ID |-> TeamIdsSorted[((k - 1) \div Len(AbbrSorted)) + 1],
         TEAM_ABBREVIATION |-> AbbrSorted[((k - 1) % Len(AbbrSorted)) + 1]]]

InGroup(r, key) ==
    r["TEAM_ID"] = key.TEAM_ID /\ r["TEAM_ABBREVIATION"] = key.TEAM_ABBREVIATION

GroupKeys(rows) ==
    SelectSeq(AllGroupKeys, LAMBDA key : \E i \in 1..Len(rows) : InGroup(rows[i], key))

GroupRows(rows, key) == SelectSeq(rows, LAMBDA r : InGroup(r, key))

RECURSIVE SumInt(_, _)
\* ("col", "sum") on an integer column
SumInt(rows, col) ==
    IF rows = <<>> THEN 0 ELSE rows[1][col] + SumInt(Tail(rows), col)

RECURSIVE SumFloat(_, _)
\* ("col", "sum") on a float column: missing values are skipped
SumFloat(rows, col) ==
    IF rows = <<>> THEN Num(0)
    ELSE IF IsNaN(rows[1][col]) THEN SumFloat(Tail(rows), col)
    ELSE FAdd(rows[1][col], SumFloat(Tail(rows), col))

(***************************************************************************)
(* 3) Aggregations (team-level).                                           *)
(***************************************************************************)
OffenseColumns ==
    {"TEAM_ID", "TEAM_ABBREVIATION", "GAMES", "PTS", "FGA", "FGM", "FG3M", "FTA",
     "OREB", "TOV", "AST", "POSS", "MIN", "PPG", "ORtg", "eFG", "TS", "AST_RATE",
     "TOV_RATE", "PACE"}

\* one row of the grouped frame, lines 99-123
OffenseRow(k, key, g) ==
    LET games == Len(g)
        pts == SumInt(g, "PTS")
        fga == SumInt(g, "FGA")
        fgm == SumInt(g, "FGM")
        fg3m == SumInt(g, "FG3M")
        fta == SumInt(g, "FTA")
        poss == SumFloat(g, "POSS")
    IN  [index |-> k - 1,
         TEAM_ID |-> key.TEAM_ID,
         TEAM_ABBREVIATION |-> key.TEAM_ABBREVIATION,
         GAMES |-> games,
         PTS |-> pts,
         FGA |-> fga,
         FGM |-> fgm,
         FG3M |-> fg3m,
         FTA |-> fta,
         OREB |-> SumInt(g, "OREB"),
         TOV |-> SumInt(g, "TOV"),
         AST |-> SumInt(g, "AST"),
         POSS |-> poss,
         MIN |-> SumInt(g, "MIN"),
         PPG |-> FDiv(Num(pts), ReplaceZero(Num(games))),
         ORtg |-> FDiv(Num(100 * pts), ReplaceZero(poss)),
         eFG |-> FDiv(Ratio(2 * fgm + fg3m, 2), ReplaceZero(Num(fga))),
         TS |-> FDiv(Num(pts), FScale(2, ReplaceZero(Ratio(100 * fga + 44 * fta, 100)))),
         AST_RATE |-> FDiv(Num(SumInt(g, "AST")), ReplaceZero(poss)),
         TOV_RATE |-> FDiv(Num(SumInt(g, "TOV")), ReplaceZero(poss)),
         PACE |-> FDiv(poss, ReplaceZero(Num(games)))]

aggregate_team_offense(df_team_games, w) ==
    LET filtered == apply_time_window_team_games(df_team_games, w)
        keys == GroupKeys(filtered.df.rows)
    IN  IF filtered.error # "" THEN filtered
        ELSE Ok([columns |-> OffenseColumns,
                 rows |-> [k \in 1..Len(keys) |->
                              OffenseRow(k, keys[k], GroupRows(filtered.df.rows, keys[k]))]])

(***************************************************************************)
(* 4) Opponent pairing + defense.                                          *)
(***************************************************************************)
PairedColumns ==
    {"GAME_ID", "GAME_DATE", "TEAM_ID", "TEAM_ABBREVIATION", "PTS_FOR", "POSS_FOR",
     "OPP_TEAM_ID", "OPP_TEAM_ABBREVIATION", "PTS_AGAINST", "POSS_AGAINST"}

\* the keys of the merge, on=["GAME_ID", "GAME_DATE"]
SameMergeKey(a, b) ==
    a["GAME_ID"] = b["GAME_ID"] /\ a["GAME_DATE"] = b["GAME_DATE"]

\* the row the merge makes of a row of base and a row of opp
MergedRow(label, own, other) ==
    [index |-> label,
     GAME_ID |-> own["GAME_ID"],
     GAME_DATE |-> own["GAME_DATE"],
     TEAM_ID |-> own["TEAM_ID"],
     TEAM_ABBREVIATION |-> own["TEAM_ABBREVIATION"],
     PTS_FOR |-> own["PTS"],
     POSS_FOR |-> own["POSS"],
     OPP_TEAM_ID |-> other["TEAM_ID"],
     OPP_TEAM_ABBREVIATION |-> other["TEAM_ABBREVIATION"],
     PTS_AGAINST |-> other["PTS"],
     POSS_AGAINST |-> other["POSS"]]

\* base.merge(opp, on=[...], how="inner"): every pair of rows with equal
\* keys, in the order of the left rows and, for one left row, of the right
\* rows (the order pandas documents for an inner merge)
InnerMerge(rows) ==
    LET n == Len(rows)
        cells == [k \in 1..(n * n) |-> <<((k - 1) \div n) + 1, ((k - 1) % n) + 1>>]
        hits == SelectSeq(cells, LAMBDA c : SameMergeKey(rows[c[1]], rows[c[2]]))
    IN  [k \in 1..Len(hits) |-> MergedRow(k - 1, rows[hits[k][1]], rows[hits[k][2]])]

pair_team_opponent(df_team_games) ==
    [columns |-> PairedColumns,
     rows |-> SelectSeq(InnerMerge(df_team_games.rows),
                        LAMBDA r : r["TEAM_ID"] # r["OPP_TEAM_ID"])]

RatingsColumns ==
    {"TEAM_ID", "TEAM_ABBREVIATION", "GAMES", "PTS_FOR", "PTS_AGAINST", "POSS_FOR",
     "POSS_AGAINST", "ORtg", "DRtg", "NET_RTG", "PACE"}

\* one row of the grouped frame, lines 185-197
RatingsRow(k, key, g) ==
    LET games == Len(g)
        pts_for == SumInt(g, "PTS_FOR")
        pts_against == SumInt(g, "PTS_AGAINST")
        poss_for == SumFloat(g, "POSS_FOR")
        poss_against == SumFloat(g, "POSS_AGAINST")
        ortg == FDiv(Num(100 * pts_for), ReplaceZero(poss_for))
        drtg == FDiv(Num(100 * pts_against), ReplaceZero(poss_against))
    IN  [index |-> k - 1,
         TEAM_ID |-> key.TEAM_ID,
         TEAM_ABBREVIATION |-> key.TEAM_ABBREVIATION,
         GAMES |-> games,
         PTS_FOR |-> pts_for,
         PTS_AGAINST |-> pts_against,
         POSS_FOR |-> poss_for,
         POSS_AGAINST |-> poss_against,
         ORtg |-> ortg,
         DRtg |-> drtg,
         NET_RTG |-> FSub(ortg, drtg),
         PACE |-> FDiv(poss_for, ReplaceZero(Num(games)))]

\* lines 176-183: the window applied to the paired rows; int() is not
\* guarded here, its ValueError leaves the function as it is
WindowPaired(rows, w) ==
    LET sorted == SortTeamDate(rows)
    IN  IF w # W_SEASON
        THEN IF StartsWith(w, W_PREFIX)
             THEN LET n == ParseInt(SplitField1(w))
                  IN  IF ~n.ok THEN Raised("invalid literal for int()", <<>>)
                      ELSE Ok([columns |-> PairedColumns, rows |-> GroupHead(sorted, n.value)])
             ELSE Raised("Unsupported window", <<>>)
        ELSE Ok([columns |-> PairedColumns, rows |-> sorted])

aggregate_team_with_defense(df_team_games, w) ==
    LET filtered == WindowPaired(pair_team_opponent(df_team_games).rows, w)
        keys == GroupKeys(filtered.df.rows)
    IN  IF filtered.error # "" THEN filtered
        ELSE Ok([columns |-> RatingsColumns,
                 rows |-> [k \in 1..Len(keys) |->
                              RatingsRow(k, keys[k], GroupRows(filtered.df.rows, keys[k]))]])

(***************************************************************************)
(* charts.py: the leaderboard's selection.                                 *)
(***************************************************************************)
\* Mutant of MetricNotAfter: charts.py line 5 with ascending=True.
MetricNotAfterAscending(a, b, m) ==
    \/ IsNaN(b[m])
    \/ ~IsNaN(a[m]) /\ ~FLess(b[m], a[m])

\* a may stand before b in sort_values(metric, ascending=False): larger
\* values first, missing values last
MetricNotAfter(a, b, m) ==
    \/ IsNaN(b[m])
    \/ ~IsNaN(a[m]) /\ ~FLess(a[m], b[m])

IndexPermutations(n) ==
    {p \in [1..n -> 1..n] : \A i, j \in 1..n : i # j => p[i] # p[j]}

\* The orders sort_values(metric, ascending=False) may return: it sorts one
\* key with quicksort, which is not stable, so rows with equal values may
\* come out in any order.
SortedByMetricDesc(rows, m) ==
    {[k \in 1..Len(rows) |-> rows[p[k]]] :
        p \in {q \in IndexPermutations(Len(rows)) :
                  \A k \in 1..(Len(rows) - 1) : MetricNotAfter(rows[q[k]], rows[q[k + 1]], m)}}

\* DataFrame.head(n), n >= 0
HeadRows(rows, n) == SubSeq(rows, 1, IF n < Len(rows) THEN n ELSE Len(rows))

\* line 5 of charts.py: the frames d may be
plot_leaderboard(df, m, n) == {HeadRows(s, n) : s \in SortedByMetricDesc(df.rows, m)}

(***************************************************************************)
(* Inputs.  A raw table has the columns ingest.py writes that the metrics  *)
(* read, and MATCHUP, which they do not.                                   *)
(***************************************************************************)
RawColumns == Range(required) \cup {"MATCHUP"}

\* the spec's 100 points on 95 possessions
LineA == [PTS |-> 100, FGA |-> 85, FGM |-> 40, FG3A |-> 30, FG3M |-> 10, FTA |-> 25,
          FTM |-> 10, OREB |-> 11, DREB |-> 30, AST |-> 25, TOV |-> 10, MIN |-> 240]

\* the spec's 90 points on 95 possessions
LineB == [PTS |-> 90, FGA |-> 85, FGM |-> 35, FG3A |-> 30, FG3M |-> 10, FTA |-> 25,
          FTM |-> 10, OREB |-> 11, DREB |-> 30, AST |-> 20, TOV |-> 10, MIN |-> 240]

\* a line of zeros: no points, no possessions
LineZero == [PTS |-> 0, FGA |-> 0, FGM |-> 0, FG3A |-> 0, FG3M |-> 0, FTA |-> 0,
             FTM |-> 0, OREB |-> 0, DREB |-> 0, AST |-> 0, TOV |-> 0, MIN |-> 0]

MakeRow(label, game, date, team, abbr, line) ==
    [index |-> label, GAME_ID |-> game, GAME_DATE |-> date, TEAM_ID |-> team,
     TEAM_ABBREVIATION |-> abbr, MATCHUP |-> "AAA vs. BBB",
     PTS |-> line.PTS, FGA |-> line.FGA, FGM |-> line.FGM, FG3A |-> line.FG3A,
     FG3M |-> line.FG3M, FTA |-> line.FTA, FTM |-> line.FTM, OREB |-> line.OREB,
     DREB |-> line.DREB, AST |-> line.AST, TOV |-> line.TOV, MIN |-> line.MIN]

\* the table with only the columns cols
RestrictColumns(df, cols) ==
    [columns |-> df.columns \cap cols,
     rows |-> [i \in 1..Len(df.rows) |->
                  [c \in (df.columns \cap cols) \cup {"index"} |-> df.rows[i][c]]]]

\* one-row tables for the normalizer: every set of required columns may be
\* absent; with all of them there, the date parses or not and MATCHUP is
\* there or not
NormalizeTable(text) ==
    [columns |-> RawColumns, rows |-> <<MakeRow(0, 1, DateText(text), 1, "AAA", LineA)>>]

NormalizeInputs ==
    {RestrictColumns(NormalizeTable("2024-01-02"), cols \cup {"MATCHUP"}) :
        cols \in SUBSET Range(required)}
    \cup {NormalizeTable("n/a"),
          RestrictColumns(NormalizeTable("2024-01-02"), Range(required)),
          RestrictColumns(NormalizeTable("n/a"), Range(required))}

\* rows for the preparation: the counts the derived fields read, zero or not
PrepLines ==
    {[LineZero EXCEPT !.FGA = fga, !.FGM = fgm, !.FG3M = fg3m, !.FTA = fta, !.PTS = pts,
                      !.OREB = ot[1], !.TOV = ot[2]] :
        fga \in {0, 80}, fgm \in {0, 1}, fg3m \in {0, 1}, fta \in {0, 20},
        pts \in {0, 3}, ot \in {<<0, 0>>, <<10, 15>>}}

PrepDates == {DateText("2024-01-02"), Timestamp(1), DateText("n/a")}

PrepInputs ==
    {[columns |-> RawColumns,
      rows |-> [i \in 1..Len(s) |-> MakeRow(i - 1, i, s[i][1], 1, "AAA", s[i][2])]] :
        s \in SeqsUpTo(PrepDates \X PrepLines, MaxPrepRows)}

\* tables for the window filter: one row per game, teams 1 and 2 on two
\* dates, team 1 under two abbreviations
TeamLabels == {<<1, "AAA">>, <<1, "AAX">>, <<2, "BBB">>}

LineOfTeam(team) == IF team = 1 THEN LineA ELSE LineB

WindowInputs ==
    {[columns |-> RawColumns,
      rows |-> [i \in 1..Len(s) |->
                   MakeRow(i - 1, i, DateText(DateStrings[s[i][2]]), s[i][1][1], s[i][1][2],
                           LineOfTeam(s[i][1][1]))]] :
        s \in SeqsUpTo(TeamLabels \X {1, 2}, MaxRows)}

\* schedules for the pairing: every game has two rows, of teams 1 and 2 in
\* either order or of team 1 twice, each with its own date, abbreviation
\* and line
GameConfigs ==
    [teams : {<<1, 2>>, <<2, 1>>, <<1, 1>>},
     days : {<<1, 1>>, <<2, 2>>, <<1, 2>>},
     lines : {<<LineA, LineB>>, <<LineZero, LineB>>},
     alt : BOOLEAN]

AbbrOf(team, alt) == IF team = 2 THEN "BBB" ELSE IF alt THEN "AAX" ELSE "AAA"

ScheduleRow(i, s) ==
    LET g == (i + 1) \div 2
        side == 2 - (i % 2)
        c == s[g]
    IN  MakeRow(i - 1, g, DateText(DateStrings[c.days[side]]), c.teams[side],
                AbbrOf(c.teams[side], c.alt), c.lines[side])

ScheduleInputs ==
    {[columns |-> RawColumns, rows |-> [i \in 1..(2 * Len(s)) |-> ScheduleRow(i, s)]] :
        s \in SeqsUpTo(GameConfigs, MaxGames)}

\* aggregate tables for the leaderboard
BoardCells == {<<NaN, NaN>>, <<Num(1), NaN>>, <<Num(1), Num(-1)>>, <<Num(1), Num(2)>>,
               <<Num(3), Num(2)>>}

BoardInputs ==
    {[columns |-> {"TEAM_ID", "TEAM_ABBREVIATION", "ORtg", "NET_RTG"},
      rows |-> [i \in 1..Len(s) |->
                   [index |-> i - 1, TEAM_ID |-> i, TEAM_ABBREVIATION |-> "AAA",
                    ORtg |-> s[i][1], NET_RTG |-> s[i][2]]]] :
        s \in SeqsUpTo(BoardCells, MaxBoardRows)}

(***************************************************************************)
(* The state machine: the input is loaded, then the calls are made.        *)
(***************************************************************************)
Idle ==
    /\ window = W_SEASON
    /\ metric = "NET_RTG"
    /\ top_n = 0
    /\ normalized = NotCalled
    /\ prepared = NotCalled
    /\ prepared_again = NotCalled
    /\ windowed = NotCalled
    /\ offense = NotCalled
    /\ paired = NotCalled
    /\ ratings = NotCalled
    /\ leaders = <<>>

InitNormalize ==
    /\ pc = "normalize"
    /\ df_raw \in NormalizeInputs
    /\ Idle

InitPrepare ==
    /\ pc = "prepare"
    /\ df_raw \in PrepInputs
    /\ Idle

\* app.py:17-22: the table is loaded and prepared, the window is chosen
Loaded(inputs) ==
    /\ pc = "window"
    /\ df_raw \in inputs
    /\ window \in (IF Len(df_raw.rows) <= MaxOddRows THEN Windows ELSE CoreWindows)
    /\ prepared = prepare_team_games_for_metrics(df_raw)
    /\ metric = "NET_RTG"
    /\ top_n = 0
    /\ normalized = NotCalled
    /\ prepared_again = NotCalled
    /\ windowed = NotCalled
    /\ offense = NotCalled
    /\ paired = NotCalled
    /\ ratings = NotCalled
    /\ leaders = <<>>

InitWindow == Loaded(WindowInputs)

InitDefense == Loaded(ScheduleInputs)

InitLeaderboard ==
    /\ pc = "leaderboard"
    /\ df_raw = NoFrame
    /\ window = W_SEASON
    /\ metric \in {"ORtg", "NET_RTG"}
    /\ top_n \in 0..MaxTopN
    /\ ratings \in {Ok(t) : t \in BoardInputs}
    /\ normalized = NotCalled
    /\ prepared = NotCalled
    /\ prepared_again = NotCalled
    /\ windowed = NotCalled
    /\ offense = NotCalled
    /\ paired = NotCalled
    /\ leaders = <<>>

Init == InitNormalize \/ InitPrepare \/ InitWindow \/ InitDefense \/ InitLeaderboard

CallNormalize ==
    /\ pc = "normalize"
    /\ LET res == normalize_team_game_df(df_raw)
       IN  /\ normalized' = res
           /\ df_raw' = CallerFrameAfter(df_raw, res.df)
    /\ pc' = "done"
    /\ UNCHANGED <<window, metric, top_n, prepared, prepared_again, windowed, offense,
                   paired, ratings, leaders>>

CallPrepare ==
    /\ pc = "prepare"
    /\ LET res == prepare_team_games_for_metrics(df_raw)
       IN  /\ prepared' = res
           /\ df_raw' = CallerFrameAfter(df_raw, res.df)
           /\ pc' = IF res.error = "" THEN "prepare_again" ELSE "done"
    /\ UNCHANGED <<window, metric, top_n, normalized, prepared_again, windowed, offense,
                   paired, ratings, leaders>>

CallPrepareAgain ==
    /\ pc = "prepare_again"
    /\ LET res == prepare_team_games_for_metrics(prepared.df)
       IN  /\ prepared_again' = res
           /\ prepared' = [prepared EXCEPT !.df = CallerFrameAfter(prepared.df, res.df)]
    /\ pc' = "done"
    /\ UNCHANGED <<df_raw, window, metric, top_n, normalized, windowed, offense, paired,
                   ratings, leaders>>

CallApplyWindow ==
    /\ pc = "window"
    /\ windowed' = apply_time_window_team_games(prepared.df, window)
    /\ pc' = "offense"
    /\ UNCHANGED <<df_raw, window, metric, top_n, normalized, prepared, prepared_again,
                   offense, paired, ratings, leaders>>

CallAggregateOffense ==
    /\ pc = "offense"
    /\ offense' = aggregate_team_offense(prepared.df, window)
    /\ pc' = "pair"
    /\ UNCHANGED <<df_raw, window, metric, top_n, normalized, prepared, prepared_again,
                   windowed, paired, ratings, leaders>>

CallPairOpponent ==
    /\ pc = "pair"
    /\ paired' = Ok(pair_team_opponent(prepared.df))
    /\ pc' = "defense"
    /\ UNCHANGED <<df_raw, window, metric, top_n, normalized, prepared, prepared_again,
                   windowed, offense, ratings, leaders>>

CallAggregateDefense ==
    /\ pc = "defense"
    /\ ratings' = aggregate_team_with_defense(prepared.df, window)
    /\ pc' = "done"
    /\ UNCHANGED <<df_raw, window, metric, top_n, normalized, prepared, prepared_again,
                   windowed, offense, paired, leaders>>

CallPlotLeaderboard ==
    /\ pc = "leaderboard"
    /\ leaders' \in plot_leaderboard(ratings.df, metric, top_n)
    /\ pc' = "done"
    /\ UNCHANGED <<df_raw, window, metric, top_n, normalized, prepared, prepared_again,
                   windowed, offense, paired, ratings>>

Next ==
    \/ CallNormalize
    \/ CallPrepare
    \/ CallPrepareAgain
    \/ CallApplyWindow
    \/ CallAggregateOffense
    \/ CallPairOpponent
    \/ CallAggregateDefense
    \/ CallPlotLeaderboard

Spec == Init /\ [][Next]_vars

NextNormalize == CallNormalize

SpecNormalize == InitNormalize /\ [][NextNormalize]_vars

NextPrepare == CallPrepare \/ CallPrepareAgain

SpecPrepare == InitPrepare /\ [][NextPrepare]_vars

NextAggregate ==
    \/ CallApplyWindow
    \/ CallAggregateOffense
    \/ CallPairOpponent
    \/ CallAggregateDefense

SpecWindow == InitWindow /\ [][NextAggregate]_vars

SpecDefense == InitDefense /\ [][NextAggregate]_vars

NextLeaderboard == CallPlotLeaderboard

SpecLeaderboard == InitLeaderboard /\ [][NextLeaderboard]_vars

(***************************************************************************)
(* Properties.  Helpers first.                                             *)
(***************************************************************************)
Min(a, b) == IF a < b THEN a ELSE b

RowsOfTeam(rows, t) == SelectSeq(rows, LAMBDA r : r["TEAM_ID"] = t)

TeamsIn(rows) == {rows[i]["TEAM_ID"] : i \in 1..Len(rows)}

AbsentRequired(df) == {c \in Range(required) : c \notin df.columns}

\* C5: when a required column is absent, normalize_team_game_df fails with
\* the missing-column error, which lists every absent required column once
\* and no column that is present; when none is absent it does not fail
\* with that error.
C5_MissingColumnsListed ==
    normalized # NotCalled =>
        IF AbsentRequired(df_raw) # {}
        THEN /\ normalized.error = "Missing required columns"
             /\ Range(normalized.missing) = AbsentRequired(df_raw)
             /\ Len(normalized.missing) = Cardinality(AbsentRequired(df_raw))
             /\ normalized.df = NoFrame
        ELSE normalized.error # "Missing required columns"

\* C5 witness: a table without GAME_ID and MIN, with PTS, was refused.
C5_Witness ==
    /\ normalized.error = "Missing required columns"
    /\ "GAME_ID" \notin df_raw.columns
    /\ "MIN" \notin df_raw.columns
    /\ "PTS" \in df_raw.columns
    /\ Len(normalized.missing) >= 2

PreparedRows == IF prepared.error = "" THEN prepared.df.rows ELSE <<>>

\* C6 as written: every row with FGA = 0 has both eFG and TS missing.
C6_Original ==
    \A i \in 1..Len(PreparedRows) :
        PreparedRows[i]["FGA"] = 0 =>
            IsNaN(PreparedRows[i]["eFG"]) /\ IsNaN(PreparedRows[i]["TS"])

\* C6 as amended: every row with FGA = 0 has eFG missing; its TS is missing
\* when FTA is 0 too and is the number PTS / (0.88 * FTA) otherwise; the
\* derived fields raise no error (only an unparsable date fails the
\* preparation).
C6_ZeroFgaShooting ==
    /\ prepared # NotCalled =>
           prepared.error = ""
           \/ \E i \in 1..Len(df_raw.rows) : ~Parsable(df_raw.rows[i]["GAME_DATE"])
    /\ \A i \in 1..Len(PreparedRows) :
           LET r == PreparedRows[i]
           IN  r["FGA"] = 0 =>
                   /\ IsNaN(r["eFG"])
                   /\ r["FTA"] = 0 => IsNaN(r["TS"])
                   /\ r["FTA"] # 0 =>
                          /\ IsNumber(r["TS"])
                          /\ r["TS"].num * 88 * r["FTA"] = 100 * r["PTS"] * r["TS"].den

\* C6 witness: a prepared row with FGA = 0 and free throws has eFG missing
\* and a TS that is a number.
C6_Witness ==
    \E i \in 1..Len(PreparedRows) :
        /\ PreparedRows[i]["FGA"] = 0
        /\ PreparedRows[i]["FTA"] > 0
        /\ PreparedRows[i]["PTS"] > 0
        /\ IsNaN(PreparedRows[i]["eFG"])
        /\ IsNumber(PreparedRows[i]["TS"])

\* C9: preparing a prepared table returns a table equal to it in every
\* column and row, and no call changes the table it is given.
C9_PrepareIdempotent ==
    /\ [](prepared_again # NotCalled => prepared_again = prepared)
    /\ [][/\ df_raw' = df_raw
          /\ prepared.error = "" => prepared'.df = prepared.df]_vars

\* C9 witness: a table with a date string and a row with missing eFG was
\* prepared twice.
C9_Witness ==
    /\ prepared_again.error = ""
    /\ \E i \in 1..Len(df_raw.rows) :
           /\ df_raw.rows[i]["GAME_DATE"].kind = "str"
           /\ prepared_again.df.rows[i]["GAME_DATE"].kind = "datetime64"
           /\ IsNaN(prepared_again.df.rows[i]["eFG"])
           /\ IsNumber(prepared_again.df.rows[i]["TS"])
           /\ prepared_again.df.rows[i]["POSS"] # Num(0)

\* the windows "LAST_N" of the model with a positive N
PositiveWindows == {<<1, W_LAST_1>>, <<2, W_LAST_2>>, <<10, W_LAST_10>>}

\* the rows of the same team that are more recent than row i, a row of the
\* same date counting when it stands earlier in the table
MoreRecent(rows, i) ==
    {j \in 1..Len(rows) :
        /\ rows[j]["TEAM_ID"] = rows[i]["TEAM_ID"]
        /\ \/ rows[j]["GAME_DATE"].day > rows[i]["GAME_DATE"].day
           \/ rows[j]["GAME_DATE"].day = rows[i]["GAME_DATE"].day /\ j < i}

MostRecent(rows, n) == {i \in 1..Len(rows) : Cardinality(MoreRecent(rows, i)) < n}

\* C2: with window "LAST_N", N positive, apply_time_window_team_games
\* returns for every team min(N, rows of the team) rows, and they are the
\* team's most recent rows by GAME_DATE, equal dates taken in the order of
\* the table; which rows of a team are kept is decided by that team's rows
\* alone.
C2_LastNPerTeam ==
    \A nw \in PositiveWindows :
        (windowed # NotCalled /\ window = nw[2]) =>
            /\ windowed.error = ""
            /\ Range(windowed.df.rows) =
                   {prepared.df.rows[i] : i \in MostRecent(prepared.df.rows, nw[1])}
            /\ Len(windowed.df.rows) = Cardinality(MostRecent(prepared.df.rows, nw[1]))
            /\ \A t \in TeamsIn(prepared.df.rows) :
                   Len(RowsOfTeam(windowed.df.rows, t)) =
                       Min(nw[1], Len(RowsOfTeam(prepared.df.rows, t)))

\* C2 witness: LAST_2 on a table where team 1 has three rows, the two
\* oldest of one date, and team 2 has one row: team 1 keeps two, the first
\* of the tied rows among them, and team 2 keeps its one.
C2_Witness ==
    /\ window = W_LAST_2
    /\ windowed.error = ""
    /\ Len(RowsOfTeam(prepared.df.rows, 1)) = 3
    /\ Len(RowsOfTeam(prepared.df.rows, 2)) = 1
    /\ Len(RowsOfTeam(windowed.df.rows, 1)) = 2
    /\ Len(RowsOfTeam(windowed.df.rows, 2)) = 1
    /\ \E i, j, k \in 1..Len(prepared.df.rows) :
           /\ i < j
           /\ prepared.df.rows[i]["TEAM_ID"] = 1
           /\ prepared.df.rows[j]["TEAM_ID"] = 1
           /\ prepared.df.rows[k]["TEAM_ID"] = 1
           /\ prepared.df.rows[i]["GAME_DATE"].day = 1
           /\ prepared.df.rows[j]["GAME_DATE"].day = 1
           /\ prepared.df.rows[k]["GAME_DATE"].day = 2
           /\ prepared.df.rows[i] \in Range(windowed.df.rows)
           /\ prepared.df.rows[j] \notin Range(windowed.df.rows)

\* the windows of the model the spec admits: SEASON and LAST_<positive integer>
ValidWindows == {W_SEASON, W_LAST_1, W_LAST_2, W_LAST_10}

\* C1: every window string other than SEASON and LAST_<positive integer>
\* makes apply_time_window_team_games and aggregate_team_with_defense fail
\* and return no table.
C1_InvalidWindowRejected ==
    window \notin ValidWindows =>
        /\ windowed # NotCalled => windowed.error # "" /\ windowed.df = NoFrame
        /\ ratings # NotCalled => ratings.error # "" /\ ratings.df = NoFrame

\* What the code does hold to: a window that is neither SEASON nor LAST_
\* followed by an integer literal is refused by both functions.
C1_NonIntegerRejected ==
    window \in {W_LAST_X, W_LAST_EMPTY, W_LAST5} =>
        /\ windowed # NotCalled => windowed.error # "" /\ windowed.df = NoFrame
        /\ ratings # NotCalled => ratings.error # "" /\ ratings.df = NoFrame

\* C8: aggregate_team_offense returns one row per TEAM_ID of the windowed
\* rows, and the row's GAMES is the number of windowed rows of that team,
\* also when a TEAM_ID comes with more than one TEAM_ABBREVIATION.
C8_OneRowPerTeam ==
    (offense # NotCalled /\ offense.error = "") =>
        /\ Len(offense.df.rows) = Cardinality(TeamsIn(windowed.df.rows))
        /\ \A k \in 1..Len(offense.df.rows) :
               offense.df.rows[k]["GAMES"] =
                   Len(RowsOfTeam(windowed.df.rows, offense.df.rows[k]["TEAM_ID"]))

\* What the code does hold to: one row per pair (TEAM_ID, TEAM_ABBREVIATION)
\* of the windowed rows, GAMES counting the windowed rows of that pair.
C8_OneRowPerTeamAndAbbreviation ==
    (offense # NotCalled /\ offense.error = "") =>
        /\ Len(offense.df.rows) =
               Cardinality({<<windowed.df.rows[i]["TEAM_ID"],
                              windowed.df.rows[i]["TEAM_ABBREVIATION"]>> :
                               i \in 1..Len(windowed.df.rows)})
        /\ \A k \in 1..Len(offense.df.rows) :
               offense.df.rows[k]["GAMES"] =
                   Cardinality({i \in 1..Len(windowed.df.rows) :
                       /\ windowed.df.rows[i]["TEAM_ID"] = offense.df.rows[k]["TEAM_ID"]
                       /\ windowed.df.rows[i]["TEAM_ABBREVIATION"] =
                              offense.df.rows[k]["TEAM_ABBREVIATION"]})

BoardRows == ratings.df.rows

\* the rows of the aggregate table the leaderboard did not take
NotReturned == {r \in Range(BoardRows) : r \notin Range(leaders)}

\* C7 as written, read on the tables where every row has a value of the
\* metric: the top-N selection returns min(N, rows) rows, the metric
\* strictly descending from each row to the next, and every returned row
\* has a metric at least as large as every row not returned.
C7_Original ==
    /\ pc = "done" /\ ratings # NotCalled /\ windowed = NotCalled
    /\ \A i \in 1..Len(BoardRows) : IsNumber(BoardRows[i][metric])
    =>
        /\ Len(leaders) = Min(top_n, Len(BoardRows))
        /\ \A k \in 1..(Len(leaders) - 1) :
               /\ IsNumber(leaders[k][metric]) /\ IsNumber(leaders[k + 1][metric])
               /\ leaders[k + 1][metric].num * leaders[k][metric].den
                      < leaders[k][metric].num * leaders[k + 1][metric].den
        /\ \A k \in 1..Len(leaders) : \A r \in NotReturned :
               /\ IsNumber(leaders[k][metric]) /\ IsNumber(r[metric])
               /\ leaders[k][metric].num * r[metric].den
                      >= r[metric].num * leaders[k][metric].den

\* a metric value is at least b's, a missing value counting as smaller
\* than every number
AtLeast(a, b) ==
    \/ b.den = 0
    \/ a.den # 0 /\ a.num * b.den >= b.num * a.den

\* C7 as amended: the top-N selection returns min(N, rows) distinct rows of
\* the table, the metric never increasing from each row to the next (equal
\* values may follow each other), rows with a missing metric after every
\* row with a value, and every returned row has a metric at least as large
\* as every row not returned, a missing metric counting as the smallest.
C7_TopNDescending ==
    pc = "done" /\ ratings # NotCalled /\ windowed = NotCalled =>
        /\ Len(leaders) = Min(top_n, Len(BoardRows))
        /\ Range(leaders) \subseteq Range(BoardRows)
        /\ Cardinality(Range(leaders)) = Len(leaders)
        /\ \A k \in 1..(Len(leaders) - 1) :
               AtLeast(leaders[k][metric], leaders[k + 1][metric])
        /\ \A k \in 1..Len(leaders) : \A r \in NotReturned :
               AtLeast(leaders[k][metric], r[metric])

\* C7 witness: a leaderboard of two rows with equal metric, a third row
\* with a smaller one left out.
C7_Witness ==
    /\ pc = "done"
    /\ ratings # NotCalled
    /\ windowed = NotCalled
    /\ Len(leaders) = 2
    /\ Len(BoardRows) = 3
    /\ IsNumber(leaders[1][metric])
    /\ leaders[1][metric] = leaders[2][metric]
    /\ \E r \in NotReturned : IsNumber(r[metric]) /\ r[metric] # leaders[2][metric]

PreparedFrameRows == prepared.df.rows

\* every game identifier is shared by exactly two rows, of two teams
TwoTeamsPerGame(rows) ==
    \A i \in 1..Len(rows) :
        \E j \in 1..Len(rows) :
            /\ j # i
            /\ rows[j]["GAME_ID"] = rows[i]["GAME_ID"]
            /\ rows[j]["TEAM_ID"] # rows[i]["TEAM_ID"]
            /\ \A k \in 1..Len(rows) :
                   rows[k]["GAME_ID"] = rows[i]["GAME_ID"] => k \in {i, j}

\* the two rows of every game carry one date
OneDatePerGame(rows) ==
    \A i, j \in 1..Len(rows) :
        rows[i]["GAME_ID"] = rows[j]["GAME_ID"] => rows[i]["GAME_DATE"] = rows[j]["GAME_DATE"]

\* the row of the other team of row i's game
Opponent(rows, i) ==
    rows[CHOOSE j \in 1..Len(rows) : j # i /\ rows[j]["GAME_ID"] = rows[i]["GAME_ID"]]

\* the paired rows are one per row of the table, with the team's own
\* points and possessions and those of the other team of the game
PairedOnePerGameTeam(rows) ==
    /\ Len(paired.df.rows) = Len(rows)
    /\ \A i \in 1..Len(rows) :
           \E k \in 1..Len(paired.df.rows) :
               LET p == paired.df.rows[k]
               IN  /\ p["GAME_ID"] = rows[i]["GAME_ID"]
                   /\ p["TEAM_ID"] = rows[i]["TEAM_ID"]
                   /\ p["PTS_FOR"] = rows[i]["PTS"]
                   /\ p["POSS_FOR"] = rows[i]["POSS"]
                   /\ p["OPP_TEAM_ID"] = Opponent(rows, i)["TEAM_ID"]
                   /\ p["PTS_AGAINST"] = Opponent(rows, i)["PTS"]
                   /\ p["POSS_AGAINST"] = Opponent(rows, i)["POSS"]
    /\ \A k \in 1..Len(paired.df.rows) :
           paired.df.rows[k]["TEAM_ID"] # paired.df.rows[k]["OPP_TEAM_ID"]

\* C3: when every game identifier is shared by exactly two rows of two
\* teams, pair_team_opponent returns one row per (game, team), with the
\* team's own points and possessions as PTS_FOR and POSS_FOR and those of
\* the other team of the game as PTS_AGAINST and POSS_AGAINST, and no row
\* pairs a team with itself.
C3_PairedOnePerGameTeam ==
    (paired # NotCalled /\ TwoTeamsPerGame(PreparedFrameRows)) =>
        PairedOnePerGameTeam(PreparedFrameRows)

\* What the code does hold to: the same, when the two rows of every game
\* carry the same GAME_DATE.
C3_PairedWhenOneDatePerGame ==
    (paired # NotCalled /\ TwoTeamsPerGame(PreparedFrameRows)
        /\ OneDatePerGame(PreparedFrameRows)) =>
        PairedOnePerGameTeam(PreparedFrameRows)

\* the paired rows the defense aggregator groups
WindowedPairedRows == WindowPaired(paired.df.rows, window).df.rows

\* the ratings of row r are those of the paired rows g
RatingsOf(r, g) ==
    LET pts_for == SumInt(g, "PTS_FOR")
        pts_against == SumInt(g, "PTS_AGAINST")
        poss_for == SumFloat(g, "POSS_FOR")
        poss_against == SumFloat(g, "POSS_AGAINST")
    IN  /\ r["GAMES"] = Len(g)
        /\ IF poss_for.num = 0 THEN IsNaN(r["ORtg"])
           ELSE IsNumber(r["ORtg"])
                /\ r["ORtg"].num * poss_for.num = 100 * pts_for * poss_for.den * r["ORtg"].den
        /\ IF poss_against.num = 0 THEN IsNaN(r["DRtg"])
           ELSE IsNumber(r["DRtg"])
                /\ r["DRtg"].num * poss_against.num
                       = 100 * pts_against * poss_against.den * r["DRtg"].den
        /\ IF poss_for.num = 0 \/ poss_against.num = 0 THEN IsNaN(r["NET_RTG"])
           ELSE r["NET_RTG"] = FSub(r["ORtg"], r["DRtg"])
        /\ IsNumber(r["PACE"])
        /\ r["PACE"].num * poss_for.den * Len(g) = poss_for.num * r["PACE"].den

\* C4: every team of the output of aggregate_team_with_defense has ORtg =
\* 100 * sum(PTS_FOR) / sum(POSS_FOR), DRtg = 100 * sum(PTS_AGAINST) /
\* sum(POSS_AGAINST), NET_RTG = ORtg - DRtg and PACE = sum(POSS_FOR) /
\* GAMES, the sums over that team's windowed paired rows; a metric with a
\* zero denominator is missing, and no error is raised for it.
C4_RatingsOfTeam ==
    (ratings # NotCalled /\ paired # NotCalled /\ ratings.error = "") =>
        \A k \in 1..Len(ratings.df.rows) :
            RatingsOf(ratings.df.rows[k],
                      RowsOfTeam(WindowedPairedRows, ratings.df.rows[k]["TEAM_ID"]))

\* What the code does hold to: the same, the sums over the windowed paired
\* rows of the team under the abbreviation of the output row.
C4_RatingsOfTeamAndAbbreviation ==
    (ratings # NotCalled /\ paired # NotCalled /\ ratings.error = "") =>
        \A k \in 1..Len(ratings.df.rows) :
            RatingsOf(ratings.df.rows[k],
                      SelectSeq(WindowedPairedRows,
                                LAMBDA p : /\ p["TEAM_ID"] = ratings.df.rows[k]["TEAM_ID"]
                                           /\ p["TEAM_ABBREVIATION"] =
                                                  ratings.df.rows[k]["TEAM_ABBREVIATION"]))

\* The spec's example: one game, A with 100 points and B with 90, both on
\* 95 possessions, gives A the ratings 100*100/95 and 100*90/95.
C4_Example ==
    (ratings # NotCalled /\ window = W_SEASON /\ Len(PreparedFrameRows) = 2
        /\ paired # NotCalled /\ Len(paired.df.rows) = 2
        /\ PreparedFrameRows[1]["TEAM_ID"] = 1 /\ PreparedFrameRows[1]["PTS"] = 100
        /\ PreparedFrameRows[2]["PTS"] = 90) =>
        /\ ratings.df.rows[1]["ORtg"] = Ratio(100 * 100, 95)
        /\ ratings.df.rows[1]["DRtg"] = Ratio(100 * 90, 95)
        /\ ratings.df.rows[1]["NET_RTG"] = Ratio(1000, 95)

\* what a frame of team aggregates says of GAMES, ORtg and PACE
GamesOrtgPace(rows) ==
    {[TEAM_ID |-> rows[k]["TEAM_ID"], TEAM_ABBREVIATION |-> rows[k]["TEAM_ABBREVIATION"],
      GAMES |-> rows[k]["GAMES"], ORtg |-> rows[k]["ORtg"], PACE |-> rows[k]["PACE"]] :
        k \in 1..Len(rows)}

SameWindowAsOffense ==
    /\ (ratings.error = "") = (windowed.error = "")
    /\ (ratings.error = "") = (offense.error = "")
    /\ GamesOrtgPace(ratings.df.rows) = GamesOrtgPace(offense.df.rows)

\* C10: when every game identifier is shared by exactly two rows of two
\* teams, aggregate_team_with_defense accepts a window exactly when
\* apply_time_window_team_games accepts it, and its GAMES, ORtg and PACE of
\* a team are those aggregate_team_offense gives the team for that window.
C10_SameWindowAsOffense ==
    (ratings # NotCalled /\ offense # NotCalled /\ TwoTeamsPerGame(PreparedFrameRows)) =>
        SameWindowAsOffense

\* What the code does hold to: the same, when the two rows of every game
\* carry the same GAME_DATE.
C10_SameWindowWhenOneDatePerGame ==
    (ratings # NotCalled /\ offense # NotCalled /\ TwoTeamsPerGame(PreparedFrameRows)
        /\ OneDatePerGame(PreparedFrameRows)) =>
        SameWindowAsOffense

=============================================================================
